---- MODULE Spec2Model ----
(***************************************************************************)
(* Model of the funhouse-mirror webcam component (FunhouseMirrorWebcam):   *)
(*   - convertCurveDataToSegments, the curve normalizer;                    *)
(*   - applyDistortion / render, the per-pixel displacement mapper;         *)
(*   - the component's state, handlers, render-loop effect and the          *)
(*     animation-frame callbacks it schedules.                              *)
(* JavaScript numbers are modelled as exact rationals extended with NaN    *)
(* and the two infinities, so that division by zero behaves as in the code. *)
(***************************************************************************)
EXTENDS Integers, Sequences, FiniteSets, TLC

VARIABLES
    \* inputs shared by the normalizer, the mapper and the component
    curveData,        \* the curveData prop
    rotation,         \* useState(0)
    \* normalizer
    curveSegments,    \* result of convertCurveDataToSegments(curveData)
    \* displacement mapper
    videoWidth, videoHeight,   \* video.videoWidth / video.videoHeight
    canvasData,       \* pixels the canvas shows after render's draw step
    outputData,       \* the ImageData created by ctx.createImageData
    reads,            \* indices of imageData.data read by applyDistortion
    phase,            \* "input" before the function ran, "done" after
    \* component
    mounted,          \* the component is mounted
    isActive,         \* useState(false)
    useRayTracing,    \* useState(false)
    animationIdRef,   \* animationIdRef.current, 0 for null
    rafQueue,         \* animation-frame callbacks requested and not yet run
    cleanupArmed,     \* the last run of the render-loop effect returned its cleanup
    effectDeps,       \* the dependencies the render-loop effect last ran with
    canvasRef,        \* canvasRef.current: the mounted canvas element, 0 for null
    srcObject,        \* video.srcObject holds a stream
    readyState,       \* video.readyState
    gumPending,       \* getUserMedia promises not yet settled
    metaPending,      \* onloadedmetadata is set and the event has not fired yet
    playPending,      \* play() promises not yet settled
    \* history
    lastStep,         \* what the last action did to the render loop
    rendersSinceRefresh,  \* draw steps since the last display refresh began
    userStopped,      \* Stop was pressed and Start has not been pressed since
    rotateClicks      \* number of rotate actions so far

normVars == <<curveSegments>>

warpVars == <<canvasData, outputData, reads, phase>>

compVars == <<mounted, isActive, useRayTracing, animationIdRef, rafQueue,
              cleanupArmed, effectDeps, canvasRef, srcObject, readyState,
              gumPending, metaPending, playPending, lastStep,
              rendersSinceRefresh, userStopped, rotateClicks>>

vars == <<curveData, rotation, videoWidth, videoHeight, normVars, warpVars, compVars>>

----------------------------------------------------------------------------
(* Bounds of the model *)

MaxDim == 2

MaxSegs == 2

MaxInFlight == 2

MaxRotates == 4

RenderCap == 2

----------------------------------------------------------------------------
(* JavaScript numbers: [k, n, d] with k = "fin" (the rational n/d, d > 0,  *)
(* in lowest terms), "inf" (n = 1 or -1) or "nan".                          *)

Abs(i) == IF i < 0 THEN -i ELSE i

Sgn(i) == IF i < 0 THEN -1 ELSE IF i > 0 THEN 1 ELSE 0

RECURSIVE GCD(_, _)
GCD(a, b) == IF b = 0 THEN a ELSE GCD(b, a % b)

NaN == [k |-> "nan", n |-> 0, d |-> 1]

Inf(s) == [k |-> "inf", n |-> s, d |-> 1]

Rat(n, d) ==
    LET s == IF d < 0 THEN -1 ELSE 1
        g == GCD(Abs(n), Abs(d))
    IN  [k |-> "fin", n |-> (s * n) \div g, d |-> (s * d) \div g]

Num(i) == [k |-> "fin", n |-> i, d |-> 1]

NSign(a) == Sgn(a.n)

Neg(a) == IF a.k = "nan" THEN NaN ELSE [a EXCEPT !.n = -a.n]

Add(a, b) ==
    IF a.k = "nan" \/ b.k = "nan" THEN NaN
    ELSE IF a.k = "inf" /\ b.k = "inf" THEN (IF a.n = b.n THEN a ELSE NaN)
    ELSE IF a.k = "inf" THEN a
    ELSE IF b.k = "inf" THEN b
    ELSE Rat(a.n * b.d + b.n * a.d, a.d * b.d)

Sub(a, b) == Add(a, Neg(b))

Mul(a, b) ==
    IF a.k = "nan" \/ b.k = "nan" THEN NaN
    ELSE IF a.k = "inf" \/ b.k = "inf"
         THEN (IF NSign(a) * NSign(b) = 0 THEN NaN ELSE Inf(NSign(a) * NSign(b)))
    ELSE Rat(a.n * b.n, a.d * b.d)

\* every zero divisor of the code is a positive zero (a width, a difference
\* of equal values, bounds.x), so n/0 takes the sign of n
Div(a, b) ==
    IF a.k = "nan" \/ b.k = "nan" THEN NaN
    ELSE IF a.k = "inf"
         THEN (IF b.k = "inf" THEN NaN
               ELSE Inf(IF NSign(b) < 0 THEN -a.n ELSE a.n))
    ELSE IF b.k = "inf" THEN Num(0)
    ELSE IF b.n = 0 THEN (IF a.n = 0 THEN NaN ELSE Inf(Sgn(a.n)))
    ELSE Rat(a.n * b.d, a.d * b.n)

\* a < b; false whenever an operand is NaN
Lt(a, b) ==
    /\ a.k # "nan" /\ b.k # "nan"
    /\ IF a.k = "inf" THEN a.n = -1 /\ ~(b.k = "inf" /\ b.n = -1)
       ELSE IF b.k = "inf" THEN b.n = 1
       ELSE a.n * b.d < b.n * a.d

Le(a, b) == a.k # "nan" /\ b.k # "nan" /\ ~Lt(b, a)

Ge(a, b) == Le(b, a)

\* Math.min / Math.max
MathMin(a, b) == IF a.k = "nan" \/ b.k = "nan" THEN NaN ELSE IF Lt(b, a) THEN b ELSE a

MathMax(a, b) == IF a.k = "nan" \/ b.k = "nan" THEN NaN ELSE IF Lt(a, b) THEN b ELSE a

\* Math.floor
MathFloor(a) == IF a.k = "fin" THEN Num(a.n \div a.d) ELSE a

\* a || 1
OrOne(a) == IF a.k = "nan" \/ (a.k = "fin" /\ a.n = 0) THEN Num(1) ELSE a

----------------------------------------------------------------------------
(* The curve data model *)

NoBounds == [x |-> 0, yTop |-> 0, yBottom |-> 0]

Bounds(x, yTop, yBottom) == [x |-> x, yTop |-> yTop, yBottom |-> yBottom]

Seg(x1, y1, x2, y2) == [x1 |-> x1, y1 |-> y1, x2 |-> x2, y2 |-> y2]

\* curveData is null / undefined
NullCurve ==
    [present |-> FALSE, hasSegs |-> FALSE, lineSegments |-> <<>>,
     hasBounds |-> FALSE, bounds |-> NoBounds]

\* an object without a lineSegments field
NoSegsCurve(hasB, b) ==
    [present |-> TRUE, hasSegs |-> FALSE, lineSegments |-> <<>>,
     hasBounds |-> hasB, bounds |-> b]

Curve(hasB, b, segs) ==
    [present |-> TRUE, hasSegs |-> TRUE, lineSegments |-> segs,
     hasBounds |-> hasB, bounds |-> b]

----------------------------------------------------------------------------
(* Curve Normalizer: convertCurveDataToSegments *)

physicalHalfHeight == 2

physicalMaxDepth == 1

PhysicalSegment(yMin, yMax, z0, z1, z2) ==
    [yMin |-> yMin, yMax |-> yMax, z0 |-> z0, z1 |-> z1, z2 |-> z2]

\* the flat mirror: yMin -0.4, yMax 0.4, z0 = z1 = z2 = 0.0
defaultSegment ==
    <<PhysicalSegment(Rat(-4, 10), Rat(4, 10), Num(0), Num(0), Num(0))>>

\* ((y - bounds.yTop) / canvasHeight) * (2 * physicalHalfHeight) - physicalHalfHeight
yPhysical(y, bounds) ==
    LET canvasHeight == Sub(Num(bounds.yBottom), Num(bounds.yTop))
    IN  Sub(Mul(Div(Sub(Num(y), Num(bounds.yTop)), canvasHeight),
                Mul(Num(2), Num(physicalHalfHeight))),
            Num(physicalHalfHeight))

\* -((bounds.x - x) / canvasWidth * physicalMaxDepth)
xDepth(x, bounds) ==
    LET canvasWidth == Num(bounds.x)
    IN  Neg(Mul(Div(Sub(Num(bounds.x), Num(x)), canvasWidth), Num(physicalMaxDepth)))

\* z0 / z2 without the orientation swap
SegToPhysicalNoSwap(seg, bounds) ==
    LET y1Physical == yPhysical(seg.y1, bounds)
        y2Physical == yPhysical(seg.y2, bounds)
        z0 == xDepth(seg.x1, bounds)
        z2 == xDepth(seg.x2, bounds)
    IN  PhysicalSegment(MathMin(y1Physical, y2Physical), MathMax(y1Physical, y2Physical),
                        z0, Div(Add(z0, z2), Num(2)), z2)

\* the body of lineSegments.map(seg => ...)
SegToPhysical(seg, bounds) ==
    LET y1Physical == yPhysical(seg.y1, bounds)
        y2Physical == yPhysical(seg.y2, bounds)
        yMin == MathMin(y1Physical, y2Physical)
        yMax == MathMax(y1Physical, y2Physical)
        x1Depth == xDepth(seg.x1, bounds)
        x2Depth == xDepth(seg.x2, bounds)
        z0 == IF Le(y1Physical, y2Physical) THEN x1Depth ELSE x2Depth
        z2 == IF Le(y1Physical, y2Physical) THEN x2Depth ELSE x1Depth
        z1 == Div(Add(z0, z2), Num(2))
    IN  PhysicalSegment(yMin, yMax, z0, z1, z2)

\* the guard of the flat-mirror default with the emptiness test left out
UsesDefaultNoLength(curve) == ~curve.present \/ ~curve.hasSegs

\* !curveData || !curveData.lineSegments || curveData.lineSegments.length === 0
UsesDefault(curve) ==
    ~curve.present \/ ~curve.hasSegs \/ Len(curve.lineSegments) = 0

\* threw: reading a field of an undefined bounds raises a TypeError
convertCurveDataToSegments(curve) ==
    IF UsesDefault(curve) THEN [threw |-> FALSE, segs |-> defaultSegment]
    ELSE IF ~curve.hasBounds THEN [threw |-> TRUE, segs |-> <<>>]
    ELSE [threw |-> FALSE,
          segs |-> [i \in 1..Len(curve.lineSegments) |->
                        SegToPhysical(curve.lineSegments[i], curve.bounds)]]

----------------------------------------------------------------------------
(* Displacement Mapper: applyDistortion and the draw step of render *)

\* the frame drawImage puts on the canvas: every channel of every pixel is
\* distinct and differs from the 0 of a fresh ImageData
VideoFrame(w, h) == [i \in 0..(4 * w * h - 1) |-> i + 1]

\* position along the scan axis as a fraction of the frame
ScanFraction(x, y, w, h, rot) ==
    IF rot = 0 THEN Div(Num(y), Num(h))
    ELSE IF rot = 90 THEN Div(Num(x), Num(w))
    ELSE IF rot = 180 THEN Div(Num(h - y), Num(h))
    ELSE Div(Num(w - x), Num(w))

\* bounds.yTop + fraction * yRange
CurveY(x, y, w, h, bounds, rot) ==
    LET yRange == Sub(Num(bounds.yBottom), Num(bounds.yTop))
    IN  Add(Num(bounds.yTop), Mul(ScanFraction(x, y, w, h, rot), yRange))

\* curveY >= minY && curveY <= maxY
Contains(seg, curveY) ==
    /\ Ge(curveY, MathMin(Num(seg.y1), Num(seg.y2)))
    /\ Le(curveY, MathMax(Num(seg.y1), Num(seg.y2)))

\* t = (curveY - y1) / (y2 - y1 || 1);  curveX = x1 + t * (x2 - x1)
Interpolate(seg, curveY) ==
    LET t == Div(Sub(curveY, Num(seg.y1)), OrOne(Sub(Num(seg.y2), Num(seg.y1))))
    IN  Add(Num(seg.x1), Mul(t, Sub(Num(seg.x2), Num(seg.x1))))

\* the segment loop without its break: the last containing segment wins
RECURSIVE FindCurveXLast(_, _, _, _)
FindCurveXLast(segs, i, curveY, curveX) ==
    IF i > Len(segs) THEN curveX
    ELSE FindCurveXLast(segs, i + 1, curveY,
                        IF Contains(segs[i], curveY)
                        THEN Interpolate(segs[i], curveY) ELSE curveX)

\* for (const seg of curve.lineSegments) { if (...) { curveX = ...; break; } }
\* from segment i on, curveX being the value held so far
RECURSIVE FindCurveX(_, _, _, _)
FindCurveX(segs, i, curveY, curveX) ==
    IF i > Len(segs) THEN curveX
    ELSE IF Contains(segs[i], curveY) THEN Interpolate(segs[i], curveY)
    ELSE FindCurveX(segs, i + 1, curveY, curveX)

\* the offset with the subtraction from bounds.x forgotten
OffsetNoSubtract(curveX, bounds) == Div(curveX, Num(bounds.x))

\* offset = (bounds.x - curveX) / xRange
Offset(curveX, bounds) == Div(Sub(Num(bounds.x), curveX), Num(bounds.x))

\* disp = offset * (w or h) * 0.5, for the curveX the segment loop found
Displacement(curveX, w, h, bounds, rot) ==
    LET extent == IF rot \in {0, 180} THEN w ELSE h
    IN  Mul(Mul(Offset(curveX, bounds), Num(extent)), Rat(1, 2))

\* <<sourceX, sourceY>> of output pixel (x, y), for the curveX found
SourceFrom(curveX, x, y, w, h, bounds, rot) ==
    LET disp == Displacement(curveX, w, h, bounds, rot)
    IN  IF rot = 0 THEN <<MathFloor(Sub(Num(x), disp)), Num(y)>>
        ELSE IF rot = 90 THEN <<Num(x), MathFloor(Sub(Num(y), disp))>>
        ELSE IF rot = 180 THEN <<MathFloor(Add(Num(x), disp)), Num(y)>>
        ELSE IF rot = 270 THEN <<Num(x), MathFloor(Add(Num(y), disp))>>
        ELSE <<Num(x), Num(y)>>

\* one iteration of the pixel loops up to the range test
SourceCoord(x, y, w, h, curve, rot) ==
    LET curveY == CurveY(x, y, w, h, curve.bounds, rot)
        curveX == FindCurveX(curve.lineSegments, 1, curveY, Num(curve.bounds.x))
    IN  SourceFrom(curveX, x, y, w, h, curve.bounds, rot)

\* the range test with the upper bound on sourceX left out
InFrameNoUpperX(src, w, h) ==
    /\ Ge(src[1], Num(0))
    /\ Ge(src[2], Num(0)) /\ Lt(src[2], Num(h))

\* sourceX >= 0 && sourceX < w && sourceY >= 0 && sourceY < h
InFrame(src, w, h) ==
    /\ Ge(src[1], Num(0)) /\ Lt(src[1], Num(w))
    /\ Ge(src[2], Num(0)) /\ Lt(src[2], Num(h))

\* (sourceY * w + sourceX) * 4, for a source coordinate that passed the test
SourceIdx(src, w) == (src[2].n * w + src[1].n) * 4

\* imageData.data[idx]; an index outside the array reads undefined, stored as 0
ReadAt(data, idx) == IF idx \in DOMAIN data THEN data[idx] ELSE 0

\* the copy at the end of each iteration, into the zero-filled buffer of
\* createImageData: srcIdx[p] is the sourceIdx of output pixel p, or -1 when
\* the range test failed and nothing is copied
CopyPixels(data, w, h, srcIdx) ==
    [out |-> [i \in 0..(4 * w * h - 1) |->
                IF srcIdx[i \div 4] # -1
                THEN ReadAt(data, srcIdx[i \div 4] + (i % 4))
                ELSE 0],
     reads |-> {srcIdx[p] + c : p \in {q \in DOMAIN srcIdx : srcIdx[q] # -1},
                                c \in 0..3}]

\* the two pixel loops: the output buffer and the indices read from the input
\* (the table of source indices is bound once, then copied from)
applyDistortion(data, w, h, curve, rot) ==
    CHOOSE r \in {CopyPixels(data, w, h, srcIdx) :
                    srcIdx \in {[p \in 0..(w * h - 1) |->
                        LET src == SourceCoord(p % w, p \div w, w, h, curve, rot)
                        IN  IF InFrame(src, w, h) THEN SourceIdx(src, w) ELSE -1]}} : TRUE

\* curveData && curveData.lineSegments && curveData.lineSegments.length > 0
hasCurve(curve) == curve.present /\ curve.hasSegs /\ Len(curve.lineSegments) > 0

\* the draw step of render(): what the canvas shows and what was read
RenderStep(data, w, h, curve, rot) ==
    IF hasCurve(curve)
    THEN CHOOSE s \in {[canvas |-> r.out, output |-> r.out, reads |-> r.reads] :
                         r \in {applyDistortion(data, w, h, curve, rot)}} : TRUE
    ELSE [canvas |-> data, output |-> <<>>, reads |-> {}]

----------------------------------------------------------------------------
(* Inputs *)

BoundsPool ==
    {Bounds(2, 0, 2), Bounds(0, 0, 2), Bounds(4, 0, 2), Bounds(2, 1, 1)}

SegPool ==
    {Seg(2, 0, 2, 2), Seg(0, 0, 0, 2), Seg(4, 2, 4, 0),
     Seg(2, 0, 0, 2), Seg(1, 1, 4, 1), Seg(3, 0, 4, 1)}

SegLists(pool) == UNION {[1..n -> pool] : n \in 0..MaxSegs}

\* curves the designer hands over: bounds and a list of segments
DesignerCurves(bs, pool) == {Curve(TRUE, b, segs) : b \in bs, segs \in SegLists(pool)}

\* the bounds and the segment of the worked example, and the segment reversed
ScenarioBounds == Bounds(400, 50, 550)

ScenarioSegs == {Seg(400, 50, 300, 550), Seg(300, 550, 400, 50)}

\* curves without a usable segment list, with or without bounds
EmptyCurves ==
    {NullCurve} \cup {NoSegsCurve(hb, Bounds(2, 0, 2)) : hb \in BOOLEAN}
                \cup {Curve(hb, Bounds(2, 0, 2), <<>>) : hb \in BOOLEAN}

Rotations == {0, 90, 180, 270}

----------------------------------------------------------------------------
(* The component: state, render-loop effect, animation-frame callbacks *)

HAVE_METADATA == 1

HAVE_CURRENT_DATA == 2

\* getUserMedia({ video: { width: 640, height: 480 } })
CameraWidth == 640

CameraHeight == 480

\* the state of the render loop threaded through one handler: the ref, the
\* browser's callback queue, whether a cleanup is registered, and how often
\* render() ran and drew since the handler began (canvas: the one drawn last)
Loop(ref, queue, armed) ==
    [ref |-> ref, queue |-> queue, armed |-> armed,
     renders |-> 0, draws |-> 0, canvas |-> 0]

\* the handle requestAnimationFrame returns: one no pending callback and no
\* stored handle uses
FreshId(L) == CHOOSE n \in 1..(Cardinality(L.queue) + 2) :
                 /\ n # L.ref
                 /\ \A cb \in L.queue : cb.id # n
                 /\ \A m \in 1..(n - 1) : m = L.ref \/ \E cb \in L.queue : cb.id = m

\* animationIdRef.current = requestAnimationFrame(render), render being the
\* closure over (curve, rot, canvas)
Schedule(L, curve, rot, canvas) ==
    [L EXCEPT !.queue = @ \cup {[id |-> FreshId(L), curve |-> curve,
                                 rot |-> rot, canvas |-> canvas]},
              !.ref = FreshId(L)]

\* if (animationIdRef.current) { cancelAnimationFrame(...); ... = null; }
Cancel(L) ==
    IF L.ref # 0
    THEN [L EXCEPT !.queue = {cb \in @ : cb.id # L.ref}, !.ref = 0]
    ELSE L

\* render() of the closure over (curve, rot, canvas); isActive is true in
\* every such closure
render(L, curve, rot, canvas, ready, w, h) ==
    LET ran == [L EXCEPT !.renders = @ + 1]
        drawn == IF ready >= HAVE_CURRENT_DATA /\ w > 0 /\ h > 0
                 THEN [ran EXCEPT !.draws = @ + 1, !.canvas = canvas]
                 ELSE ran
    IN  Schedule(drawn, curve, rot, canvas)

\* the cleanup the effect returned
Cleanup(L) == IF L.armed THEN [Cancel(L) EXCEPT !.armed = FALSE] ELSE L

\* the body of the render-loop effect
EffectBody(L, active, curve, rot, canvas, ready, w, h) ==
    IF ~active THEN [Cancel(L) EXCEPT !.armed = FALSE]
    ELSE IF canvas = 0 THEN [L EXCEPT !.armed = FALSE]
    ELSE [render(L, curve, rot, canvas, ready, w, h) EXCEPT !.armed = TRUE]

\* a re-run of the effect: the previous cleanup, then the body
RunEffect(L, active, curve, rot, canvas, ready, w, h) ==
    EffectBody(Cleanup(L), active, curve, rot, canvas, ready, w, h)

Deps(active, curve, rot) == [isActive |-> active, curveData |-> curve, rotation |-> rot]

\* a committed change of [isActive, curveData, rotation] whose effect has not run
EffectPending == mounted /\ effectDeps # Deps(isActive, curveData, rotation)

\* the loop as the current state holds it
CurrentLoop == Loop(animationIdRef, rafQueue, cleanupArmed)

\* React runs an effect still pending from the previous commit before it
\* renders the next update; ready, w, h are the video's values at that time
FlushPending(L, ready, w, h) ==
    IF EffectPending
    THEN RunEffect(L, isActive, curveData, rotation, canvasRef, ready, w, h)
    ELSE L

\* the rotation with the wrap-around left out
NextRotationNoWrap(prev) == prev + 90

\* prev => (prev + 90) % 360
NextRotation(prev) == (prev + 90) % 360

\* the canvas element a re-mount of <canvas> creates: one no pending closure holds
FreshCanvas(queue) ==
    CHOOSE n \in 1..(Cardinality(queue) + 1) :
        /\ \A cb \in queue : cb.canvas # n
        /\ \A m \in 1..(n - 1) : \E cb \in queue : cb.canvas = m

Step(kind, L, ray, shown) ==
    [kind |-> kind, renders |-> L.renders, draws |-> L.draws, canvas |-> L.canvas,
     ray |-> ray, shown |-> shown]

NoStep == [kind |-> "none", renders |-> 0, draws |-> 0, canvas |-> 0,
           ray |-> FALSE, shown |-> 0]

Bump(n, k) == IF n + k > RenderCap THEN RenderCap ELSE n + k

\* the loop state and the histories after a handler that ended with loop L
SetLoop(L, kind, ray, shown) ==
    /\ animationIdRef' = L.ref
    /\ rafQueue' = L.queue
    /\ cleanupArmed' = L.armed
    /\ lastStep' = Step(kind, L, ray, shown)
    /\ rendersSinceRefresh' =
          IF kind = "tick" THEN L.draws ELSE Bump(rendersSinceRefresh, L.draws)

\* a re-render: what the ray-traced branch of the JSX passes as curveSegments
Rendered(ray, curve) ==
    curveSegments' = IF ray THEN convertCurveDataToSegments(curve) ELSE curveSegments

ComponentCurves ==
    {NullCurve, Curve(TRUE, Bounds(2, 0, 2), <<>>),
     Curve(TRUE, Bounds(4, 0, 2), <<Seg(3, 0, 4, 1), Seg(4, 2, 4, 0)>>)}

ComponentIdle ==
    /\ mounted = TRUE /\ isActive = FALSE /\ useRayTracing = FALSE
    /\ animationIdRef = 0 /\ rafQueue = {} /\ cleanupArmed = FALSE
    /\ effectDeps = Deps(FALSE, curveData, rotation)
    /\ canvasRef = 1
    /\ srcObject = FALSE /\ readyState = 0
    /\ gumPending = 0 /\ metaPending = FALSE /\ playPending = 0
    /\ lastStep = NoStep /\ rendersSinceRefresh = 0
    /\ userStopped = FALSE /\ rotateClicks = 0

WarpIdle == canvasData = <<>> /\ outputData = <<>> /\ reads = {} /\ phase = "input"

\* the component after its first render and effect run (isActive is false)
Init ==
    /\ curveData \in ComponentCurves
    /\ rotation = 0
    /\ videoWidth = 0 /\ videoHeight = 0
    /\ curveSegments = [threw |-> FALSE, segs |-> <<>>]
    /\ WarpIdle
    /\ ComponentIdle

\* startCamera up to its await
StartCamera ==
    /\ mounted /\ ~isActive
    /\ gumPending + playPending + (IF metaPending THEN 1 ELSE 0) < MaxInFlight
    /\ gumPending' = gumPending + 1
    /\ userStopped' = FALSE
    /\ lastStep' = NoStep
    /\ UNCHANGED <<curveData, rotation, videoWidth, videoHeight, normVars, warpVars,
                   mounted, isActive, useRayTracing, animationIdRef, rafQueue,
                   cleanupArmed, effectDeps, canvasRef, srcObject, readyState,
                   metaPending, playPending, rendersSinceRefresh, rotateClicks>>

\* getUserMedia resolves: srcObject and onloadedmetadata are set if the
\* video element is still there
GetUserMediaResolved ==
    /\ gumPending > 0
    /\ gumPending' = gumPending - 1
    /\ IF mounted
       THEN /\ srcObject' = TRUE /\ readyState' = 0 /\ metaPending' = TRUE
            /\ videoWidth' = 0 /\ videoHeight' = 0
       ELSE UNCHANGED <<srcObject, readyState, metaPending, videoWidth, videoHeight>>
    /\ lastStep' = NoStep
    /\ UNCHANGED <<curveData, rotation, normVars, warpVars, mounted, isActive,
                   useRayTracing, animationIdRef, rafQueue, cleanupArmed,
                   effectDeps, canvasRef, playPending, rendersSinceRefresh,
                   userStopped, rotateClicks>>

\* getUserMedia rejects: the catch block alerts
GetUserMediaRejected ==
    /\ gumPending > 0
    /\ gumPending' = gumPending - 1
    /\ lastStep' = NoStep
    /\ UNCHANGED <<curveData, rotation, videoWidth, videoHeight, normVars, warpVars,
                   mounted, isActive, useRayTracing, animationIdRef, rafQueue,
                   cleanupArmed, effectDeps, canvasRef, srcObject, readyState,
                   metaPending, playPending, rendersSinceRefresh, userStopped,
                   rotateClicks>>

\* onloadedmetadata: videoRef.current.play(), which throws once unmounted
LoadedMetadata ==
    /\ metaPending /\ srcObject
    /\ metaPending' = FALSE
    /\ readyState' = HAVE_METADATA
    /\ videoWidth' = CameraWidth /\ videoHeight' = CameraHeight
    /\ playPending' = IF mounted THEN playPending + 1 ELSE playPending
    /\ lastStep' = NoStep
    /\ UNCHANGED <<curveData, rotation, normVars, warpVars, mounted, isActive,
                   useRayTracing, animationIdRef, rafQueue, cleanupArmed,
                   effectDeps, canvasRef, srcObject, gumPending,
                   rendersSinceRefresh, userStopped, rotateClicks>>

\* the first frame of the stream arrives
FrameAvailable ==
    /\ srcObject /\ readyState = HAVE_METADATA
    /\ readyState' = HAVE_CURRENT_DATA
    /\ lastStep' = NoStep
    /\ UNCHANGED <<curveData, rotation, videoWidth, videoHeight, normVars, warpVars,
                   mounted, isActive, useRayTracing, animationIdRef, rafQueue,
                   cleanupArmed, effectDeps, canvasRef, srcObject, gumPending,
                   metaPending, playPending, rendersSinceRefresh, userStopped,
                   rotateClicks>>

\* play().then(() => setIsActive(true)); the effect runs later (FlushEffects)
PlayResolved ==
    /\ playPending > 0 /\ srcObject /\ readyState = HAVE_CURRENT_DATA
    /\ playPending' = playPending - 1
    /\ isActive' = IF mounted THEN TRUE ELSE isActive
    /\ lastStep' = NoStep
    /\ Rendered(useRayTracing /\ mounted, curveData)
    /\ UNCHANGED <<curveData, rotation, videoWidth, videoHeight, warpVars,
                   mounted, useRayTracing, animationIdRef, rafQueue, cleanupArmed,
                   effectDeps, canvasRef, srcObject, readyState, gumPending,
                   metaPending, rendersSinceRefresh, userStopped, rotateClicks>>

\* play() rejects (the load was aborted): no then-callback, nothing caught
PlayRejected ==
    /\ playPending > 0
    /\ playPending' = playPending - 1
    /\ lastStep' = NoStep
    /\ UNCHANGED <<curveData, rotation, videoWidth, videoHeight, normVars, warpVars,
                   mounted, isActive, useRayTracing, animationIdRef, rafQueue,
                   cleanupArmed, effectDeps, canvasRef, srcObject, readyState,
                   gumPending, metaPending, rendersSinceRefresh, userStopped,
                   rotateClicks>>

\* stopCamera, then the re-render with isActive = false and its effect
StopCamera ==
    /\ mounted /\ isActive
    /\ srcObject' = FALSE /\ readyState' = 0 /\ metaPending' = FALSE
    /\ videoWidth' = 0 /\ videoHeight' = 0
    /\ isActive' = FALSE
    /\ effectDeps' = Deps(FALSE, curveData, rotation)
    /\ userStopped' = TRUE
    /\ \E L \in {RunEffect(FlushPending(Cancel(CurrentLoop), 0, 0, 0),
                           FALSE, curveData, rotation, canvasRef, 0, 0, 0)} :
           /\ animationIdRef' = L.ref
           /\ rafQueue' = L.queue
           /\ cleanupArmed' = L.armed
           /\ rendersSinceRefresh' = Bump(rendersSinceRefresh, L.draws)
    /\ lastStep' = NoStep
    /\ Rendered(useRayTracing, curveData)
    /\ UNCHANGED <<curveData, rotation, warpVars, mounted, useRayTracing,
                   canvasRef, gumPending, playPending, rotateClicks>>

\* rotateDistortion, then the re-render and the effect's re-run
RotateDistortion ==
    /\ mounted /\ curveData.present /\ ~useRayTracing
    /\ rotateClicks < MaxRotates
    /\ rotation' = NextRotation(rotation)
    /\ rotateClicks' = rotateClicks + 1
    /\ effectDeps' = Deps(isActive, curveData, rotation')
    /\ \E L \in {RunEffect(FlushPending(CurrentLoop, readyState, videoWidth, videoHeight),
                           isActive, curveData, rotation', canvasRef,
                           readyState, videoWidth, videoHeight)} :
           SetLoop(L, "effect", useRayTracing, canvasRef)
    /\ Rendered(useRayTracing, curveData)
    /\ UNCHANGED <<curveData, videoWidth, videoHeight, warpVars, mounted, isActive,
                   useRayTracing, canvasRef, srcObject, readyState, gumPending,
                   metaPending, playPending, userStopped>>

\* toggleRayTracing, then the re-render: the JSX swaps <canvas> and
\* <RayTracedMirror>; useRayTracing is no dependency of the effect
ToggleRayTracing ==
    /\ mounted /\ isActive
    /\ useRayTracing' = ~useRayTracing
    /\ effectDeps' = Deps(isActive, curveData, rotation)
    /\ \E L \in {FlushPending(CurrentLoop, readyState, videoWidth, videoHeight)} :
         \E shown \in {IF ~useRayTracing THEN 0 ELSE FreshCanvas(L.queue)} :
           /\ canvasRef' = shown
           /\ SetLoop(L, "effect", ~useRayTracing, shown)
    /\ Rendered(~useRayTracing, curveData)
    /\ UNCHANGED <<curveData, rotation, videoWidth, videoHeight, warpVars, mounted,
                   isActive, srcObject, readyState, gumPending, metaPending,
                   playPending, userStopped, rotateClicks>>

\* the parent passes another curveData; the effect runs later (FlushEffects)
CurveChange ==
    /\ mounted
    /\ \E c \in ComponentCurves \ {curveData} :
           /\ curveData' = c
           /\ Rendered(useRayTracing, c)
    /\ lastStep' = NoStep
    /\ UNCHANGED <<rotation, videoWidth, videoHeight, warpVars, mounted, isActive,
                   useRayTracing, animationIdRef, rafQueue, cleanupArmed,
                   effectDeps, canvasRef, srcObject, readyState, gumPending,
                   metaPending, playPending, rendersSinceRefresh, userStopped,
                   rotateClicks>>

\* the render-loop effect re-runs for changed dependencies
FlushEffects ==
    /\ EffectPending
    /\ effectDeps' = Deps(isActive, curveData, rotation)
    /\ \E L \in {FlushPending(CurrentLoop, readyState, videoWidth, videoHeight)} :
           SetLoop(L, "effect", useRayTracing, canvasRef)
    /\ UNCHANGED <<curveData, rotation, videoWidth, videoHeight, normVars, warpVars,
                   mounted, isActive, useRayTracing, canvasRef, srcObject,
                   readyState, gumPending, metaPending, playPending, userStopped,
                   rotateClicks>>

\* a display refresh runs a pending animation-frame callback
Tick ==
    /\ \E cb \in rafQueue :
         \E L \in {render(Loop(animationIdRef, rafQueue \ {cb}, cleanupArmed),
                          cb.curve, cb.rot, cb.canvas,
                          readyState, videoWidth, videoHeight)} :
             SetLoop(L, "tick", useRayTracing, canvasRef)
    /\ UNCHANGED <<curveData, rotation, videoWidth, videoHeight, normVars, warpVars,
                   mounted, isActive, useRayTracing, effectDeps, canvasRef,
                   srcObject, readyState, gumPending, metaPending, playPending,
                   userStopped, rotateClicks>>

\* the component is torn down: the effect's cleanup runs, the refs are cleared
Unmount ==
    /\ mounted
    /\ mounted' = FALSE
    /\ canvasRef' = 0
    /\ \E L \in {Cleanup(FlushPending(CurrentLoop, readyState, videoWidth, videoHeight))} :
           /\ animationIdRef' = L.ref
           /\ rafQueue' = L.queue
           /\ cleanupArmed' = L.armed
           /\ rendersSinceRefresh' = Bump(rendersSinceRefresh, L.draws)
    /\ lastStep' = NoStep
    /\ UNCHANGED <<curveData, rotation, videoWidth, videoHeight, normVars, warpVars,
                   isActive, useRayTracing, effectDeps, srcObject, readyState,
                   gumPending, metaPending, playPending, userStopped, rotateClicks>>

Next ==
    \/ StartCamera
    \/ GetUserMediaResolved
    \/ GetUserMediaRejected
    \/ LoadedMetadata
    \/ FrameAvailable
    \/ PlayResolved
    \/ PlayRejected
    \/ StopCamera
    \/ RotateDistortion
    \/ ToggleRayTracing
    \/ CurveChange
    \/ FlushEffects
    \/ Tick
    \/ Unmount

Spec == Init /\ [][Next]_vars

----------------------------------------------------------------------------
(* Specification of the normalizer: the curve is an input, the conversion  *)
(* runs once on it (the ray-traced branch of the JSX).                      *)

NormalizerInputs ==
    EmptyCurves \cup DesignerCurves(BoundsPool, SegPool)
        \cup DesignerCurves({ScenarioBounds}, ScenarioSegs)
        \cup {Curve(FALSE, NoBounds, segs) : segs \in SegLists(ScenarioSegs)}

InitNormalize ==
    /\ curveData \in NormalizerInputs
    /\ rotation = 0
    /\ videoWidth = 0 /\ videoHeight = 0
    /\ curveSegments = [threw |-> FALSE, segs |-> <<>>]
    /\ WarpIdle
    /\ ComponentIdle

Convert ==
    /\ phase = "input"
    /\ curveSegments' = convertCurveDataToSegments(curveData)
    /\ phase' = "done"
    /\ UNCHANGED <<curveData, rotation, videoWidth, videoHeight, canvasData,
                   outputData, reads, compVars>>

SpecNormalize == InitNormalize /\ [][Convert]_vars

----------------------------------------------------------------------------
(* Specification of the mapper: frame size, curve and rotation are inputs, *)
(* one render() draw step runs on them.                                     *)

InitWarp ==
    /\ curveData \in EmptyCurves \cup DesignerCurves(BoundsPool, SegPool)
    /\ rotation \in Rotations
    /\ videoWidth \in 1..MaxDim
    /\ videoHeight \in 1..MaxDim
    /\ canvasData = <<>> /\ outputData = <<>> /\ reads = {}
    /\ curveSegments = [threw |-> FALSE, segs |-> <<>>]
    /\ phase = "input"
    /\ ComponentIdle

\* if (video.videoWidth > 0 && video.videoHeight > 0) { ... draw ... }
RenderFrame ==
    /\ phase = "input"
    /\ phase' = "done"
    /\ IF videoWidth > 0 /\ videoHeight > 0
       THEN \E r \in {RenderStep(VideoFrame(videoWidth, videoHeight),
                                  videoWidth, videoHeight, curveData, rotation)} :
                /\ canvasData' = r.canvas
                /\ outputData' = r.output
                /\ reads' = r.reads
       ELSE UNCHANGED <<canvasData, outputData, reads>>
    /\ UNCHANGED <<curveData, rotation, videoWidth, videoHeight, curveSegments,
                   compVars>>

SpecWarp == InitWarp /\ [][RenderFrame]_vars

----------------------------------------------------------------------------
(* Properties of the normalizer *)

\* the rational n/d written out (d > 0, lowest terms)
Q(n, d) == [k |-> "fin", n |-> n, d |-> d]

NoSegments(curve) == ~curve.present \/ ~curve.hasSegs \/ curve.lineSegments = <<>>

ValidBounds(b) == b.yBottom > b.yTop /\ b.x # 0

\* y mapped linearly from [yTop, yBottom] to [-2, +2]
MappedY(y, b) == Rat(4 * (y - b.yTop) - 2 * (b.yBottom - b.yTop), b.yBottom - b.yTop)

\* depth -((bounds.x - x) / bounds.x) * 1.0
DepthOf(x, b) == Rat(x - b.x, b.x)

IntMin(a, b) == IF a <= b THEN a ELSE b

IntMax(a, b) == IF a >= b THEN a ELSE b

ScenarioCurve == Curve(TRUE, Bounds(400, 50, 550), <<Seg(400, 50, 300, 550)>>)

ScenarioCurveSwapped == Curve(TRUE, Bounds(400, 50, 550), <<Seg(300, 550, 400, 50)>>)

ScenarioResult ==
    <<[yMin |-> Q(-2, 1), yMax |-> Q(2, 1), z0 |-> Q(0, 1), z1 |-> Q(-1, 8), z2 |-> Q(-1, 4)]>>

SegmentAsSpecified(s, r, b) ==
    /\ r.yMin = MappedY(IntMin(s.y1, s.y2), b)
    /\ r.yMax = MappedY(IntMax(s.y1, s.y2), b)
    /\ s.y1 < s.y2 => r.z0 = DepthOf(s.x1, b) /\ r.z2 = DepthOf(s.x2, b)
    /\ s.y1 > s.y2 => r.z0 = DepthOf(s.x2, b) /\ r.z2 = DepthOf(s.x1, b)
    /\ s.y1 = s.y2 => {r.z0, r.z2} = {DepthOf(s.x1, b), DepthOf(s.x2, b)}
    /\ r.z1 = Rat(r.z0.n * r.z2.d + r.z2.n * r.z0.d, 2 * r.z0.d * r.z2.d)

FlatMirrorDefault ==
    (phase = "done" /\ NoSegments(curveData))
    => curveSegments =
         [threw |-> FALSE,
          segs |-> <<[yMin |-> Q(-2, 5), yMax |-> Q(2, 5),
                      z0 |-> Q(0, 1), z1 |-> Q(0, 1), z2 |-> Q(0, 1)]>>]

\* an empty lineSegments without bounds has been converted to the default
FlatMirrorDefaultWitness ==
    /\ phase = "done"
    /\ curveData.present /\ curveData.hasSegs /\ curveData.lineSegments = <<>>
    /\ ~curveData.hasBounds
    /\ ~curveSegments.threw /\ Len(curveSegments.segs) = 1

----------------------------------------------------------------------------
(* Properties of the mapper *)

Pixels == 0..(videoWidth * videoHeight - 1)

PX(p) == p % videoWidth

PY(p) == p \div videoWidth

Frame == VideoFrame(videoWidth, videoHeight)

\* the source coordinate the code computes for output pixel p
SourceOf(p) == SourceCoord(PX(p), PY(p), videoWidth, videoHeight, curveData, rotation)

\* the curve position the code computes for output pixel p
CurveYOf(p) == CurveY(PX(p), PY(p), videoWidth, videoHeight, curveData.bounds, rotation)

\* outside [0, w) x [0, h), non-finite included
SourceOutside(src) ==
    ~ /\ src[1].k = "fin" /\ src[1].n >= 0 /\ src[1].n < videoWidth
      /\ src[2].k = "fin" /\ src[2].n >= 0 /\ src[2].n < videoHeight

Distorted == phase = "done" /\ ~NoSegments(curveData)

\* one segment spanning [yTop, yBottom] at x = bounds.x
FullSpanAtCenter(curve) ==
    /\ ~NoSegments(curve) /\ curve.hasBounds
    /\ Len(curve.lineSegments) = 1
    /\ curve.lineSegments[1].x1 = curve.bounds.x
    /\ curve.lineSegments[1].x2 = curve.bounds.x
    /\ {curve.lineSegments[1].y1, curve.lineSegments[1].y2}
           = {curve.bounds.yTop, curve.bounds.yBottom}

\* C1 as stated: identity for a curve without segments at every rotation and
\* for a full-span segment at x = bounds.x at rotation 0.
IdentityWarp ==
    (phase = "done"
        /\ (NoSegments(curveData) \/ (rotation = 0 /\ FullSpanAtCenter(curveData))))
    => canvasData = Frame

\* C1 amended: the same, the full-span case for bounds.x # 0 only.
IdentityWarpNonZeroX ==
    (phase = "done"
        /\ \/ NoSegments(curveData)
           \/ rotation = 0 /\ FullSpanAtCenter(curveData) /\ curveData.bounds.x # 0)
    => canvasData = Frame

\* a full-span segment at a non-zero centreline has been warped at rotation 0
IdentityWarpWitness ==
    /\ phase = "done" /\ rotation = 0
    /\ FullSpanAtCenter(curveData) /\ curveData.bounds.x # 0
    /\ videoWidth >= 2 /\ videoHeight >= 2
    /\ canvasData = Frame

\* C2: a pixel whose source coordinate is outside the frame (non-finite
\* included) keeps the 0 of the fresh output buffer in its four channels,
\* and every index read from the input lies in [0, 4*w*h).
BoundaryContainment ==
    Distorted
    => /\ \A p \in Pixels : \A src \in {SourceOf(p)} :
              SourceOutside(src) => \A c \in 0..3 : outputData[4 * p + c] = 0
       /\ reads \subseteq 0..(4 * videoWidth * videoHeight - 1)

\* one pixel was skipped for a finite coordinate outside the frame while
\* another was copied
BoundaryContainmentWitness ==
    /\ Distorted
    /\ reads # {}
    /\ \E p \in Pixels : \E src \in {SourceOf(p)} :
           /\ SourceOutside(src) /\ src[1].k = "fin" /\ src[2].k = "fin"
           /\ \A c \in 0..3 : outputData[4 * p + c] = 0

\* the closed interval [min(y1,y2), max(y1,y2)] contains curveY
InInterval(seg, curveY) ==
    /\ Le(Num(IntMin(seg.y1, seg.y2)), curveY)
    /\ Le(curveY, Num(IntMax(seg.y1, seg.y2)))

\* the index of the first segment in input order containing curveY, if any
FirstMatch(segs, curveY) ==
    {i \in 1..Len(segs) :
        /\ InInterval(segs[i], curveY)
        /\ \A j \in 1..(i - 1) : ~InInterval(segs[j], curveY)}

\* x1 + t (x2 - x1), t = (curveY - y1)/(y2 - y1), the denominator 1 if y2 = y1
LinearX(seg, curveY) ==
    LET den == IF seg.y2 = seg.y1 THEN 1 ELSE seg.y2 - seg.y1
    IN  Add(Num(seg.x1), Mul(Div(Sub(curveY, Num(seg.y1)), Num(den)), Num(seg.x2 - seg.x1)))

FirstMatchX(curve, curveY) ==
    IF FirstMatch(curve.lineSegments, curveY) = {} THEN Num(curve.bounds.x)
    ELSE LinearX(curve.lineSegments[CHOOSE i \in FirstMatch(curve.lineSegments, curveY) : TRUE],
                 curveY)

\* the channel an output pixel gets from a source coordinate
ChannelFrom(src, c) ==
    IF SourceOutside(src) THEN 0
    ELSE Frame[(src[2].n * videoWidth + src[1].n) * 4 + c]

PixelFollowsFirstMatch(p) ==
    \A src \in {SourceFrom(FirstMatchX(curveData, CurveYOf(p)), PX(p), PY(p),
                           videoWidth, videoHeight, curveData.bounds, rotation)} :
        \A c \in 0..3 : outputData[4 * p + c] = ChannelFrom(src, c)

PixelUndisplaced(p) == \A c \in 0..3 : outputData[4 * p + c] = Frame[4 * p + c]

\* C9 as stated: every pixel is displaced by the first containing segment,
\* and a pixel no segment contains is not displaced at all.
FirstMatchWins ==
    Distorted
    => \A p \in Pixels :
          /\ PixelFollowsFirstMatch(p)
          /\ FirstMatch(curveData.lineSegments, CurveYOf(p)) = {} => PixelUndisplaced(p)

\* C9 amended: the pixel no segment contains is undisplaced when bounds.x # 0.
FirstMatchWinsNonZeroX ==
    Distorted
    => \A p \in Pixels :
          /\ PixelFollowsFirstMatch(p)
          /\ (FirstMatch(curveData.lineSegments, CurveYOf(p)) = {} /\ curveData.bounds.x # 0)
                => PixelUndisplaced(p)

\* two overlapping segments disagree about a pixel, one pixel has no segment
FirstMatchWinsWitness ==
    /\ Distorted
    /\ Len(curveData.lineSegments) = 2
    /\ curveData.bounds.x # 0
    /\ \E p \in Pixels :
           /\ InInterval(curveData.lineSegments[1], CurveYOf(p))
           /\ InInterval(curveData.lineSegments[2], CurveYOf(p))
           /\ LinearX(curveData.lineSegments[1], CurveYOf(p))
                 # LinearX(curveData.lineSegments[2], CurveYOf(p))
           /\ ~SourceOutside(SourceOf(p))
    /\ \E p \in Pixels : FirstMatch(curveData.lineSegments, CurveYOf(p)) = {}

\* the frame turned by 180 degrees: pixel (x, y) comes from (w-1-x, h-1-y)
Rot180(data, w, h) ==
    [i \in DOMAIN data |-> data[4 * (w * h - 1 - (i \div 4)) + (i % 4)]]

\* C10 (stated for valid bounds): at 180 (270) every pixel uses the curve position the 0 (90) degree
\* warp uses for the mirrored row (column), and the warp equals the 0 (90)
\* degree warp conjugated by a 180-degree turn of the frame.
PointSymmetry ==
    (Distorted /\ rotation \in {180, 270} /\ ValidBounds(curveData.bounds))
    => /\ \A p \in Pixels :
              CurveYOf(p) = CurveY(videoWidth - 1 - PX(p), videoHeight - 1 - PY(p),
                                   videoWidth, videoHeight, curveData.bounds,
                                   rotation - 180)
       /\ outputData =
              Rot180(applyDistortion(Rot180(Frame, videoWidth, videoHeight),
                                     videoWidth, videoHeight, curveData,
                                     rotation - 180).out,
                     videoWidth, videoHeight)

----------------------------------------------------------------------------
(* Properties of the component *)

\* C5: the rotation is one of 0, 90, 180, 270 and equals 90 degrees times
\* the number of rotate actions, modulo 360: each rotate action advances it
\* by one quarter turn, four of them restore it, and nothing else changes it.
RotationCycle ==
    /\ rotation \in Rotations
    /\ rotation = (90 * rotateClicks) % 360

\* four rotate actions have brought the rotation back to 0
RotationCycleWitness == rotateClicks = 4 /\ rotation = 0 /\ isActive

\* C6: a tick in ray-traced mode runs no direct-mode draw step, and a tick in
\* direct mode draws to the canvas that is displayed.
ModesExclusive ==
    lastStep.kind = "tick"
    => /\ lastStep.ray => lastStep.draws = 0
       /\ (~lastStep.ray /\ lastStep.draws > 0) => lastStep.canvas = lastStep.shown

\* C7: after Stop (until Start is pressed again) and after teardown no
\* animation-frame callback is pending and render() does not run.
NoRenderAfterStop ==
    (userStopped \/ ~mounted) => rafQueue = {} /\ lastStep.renders = 0

\* C8: the draw step runs at most once per display refresh and at most one
\* animation-frame callback is pending.
OncePerRefresh == rendersSinceRefresh <= 1 /\ Cardinality(rafQueue) <= 1

====
